---- MODULE Spec2Model ----
(***************************************************************************)
(* intend-hooks: the webhook receiver of src/src/main.rs.                  *)
(*                                                                         *)
(* The state is the remote document store (two collections, "tasks" keyed  *)
(* by task text and "users" keyed by username), the wall clock read by     *)
(* Utc::now(), and the requests in flight.  Every handler is a short       *)
(* sequence of store calls; each store call is one atomic step, and the    *)
(* steps of different requests interleave under Spec.  SpecSeq is the      *)
(* same program with one request at a time.                                *)
(*                                                                         *)
(* A stored document is a record of its fields, each field a set holding   *)
(* zero values (the field is not on the document) or one value.  A Rust    *)
(* Option is the same: {} is None, {v} is Some(v).                         *)
(***************************************************************************)
EXTENDS Integers, Sequences, FiniteSets, TLC

VARIABLES tasks, users, now, req, nops, seed, workers, hist

vars == <<tasks, users, now, req, nops, seed, workers, hist>>

(* fixed for a run: the store the service started on, and how many         *)
(* requests it serves at a time                                            *)
conf == <<seed, workers>>

(* ---------------------------- bounds ----------------------------------- *)

MaxTime == 1
MaxOps == 3
MaxInFlight == 2
MaxOverlapOps == 2

(* ------------------------- input domains ------------------------------- *)

Usernames == {"u1", "u2"}
TaskNames == {"t1", "t2"}
(* the message a user posts: each user posts their own *)
MessageOf(u) == IF u = "u1" THEN "m1" ELSE "m2"
Ratings == {1, 2}
Slots == 1..MaxInFlight

The(S) == CHOOSE v \in S : TRUE

(* ------------------------- i32 arithmetic ------------------------------ *)

I32Max == 2147483647

I32Min == -I32Max - 1

(* i32 addition of 1, wrapping at the top of the range *)
I32Inc(n) == IF n = I32Max THEN I32Min ELSE n + 1

(* n + 1 does not fit an i32: a build without overflow checks wraps, a     *)
(* build with them panics                                                  *)
AddOverflows(n) == n = I32Max

(* --------------------------- data model -------------------------------- *)

TaskFields == {"goal_name", "username", "task_name", "color", "updated_at",
               "message", "speed_rating"}

UserFields == {"id", "current_task_id", "pomodoro_spent"}

BlankTaskDoc == [goal_name |-> {}, username |-> {}, task_name |-> {},
                 color |-> {}, updated_at |-> {}, message |-> {},
                 speed_rating |-> {}]

BlankUserDoc == [id |-> {}, current_task_id |-> {}, pomodoro_spent |-> {}]

FirestoreTask(g, u, t, c, at, m, sr) ==
    [goal_name |-> g, username |-> u, task_name |-> t, color |-> c,
     updated_at |-> at, message |-> m, speed_rating |-> sr]

User(i, cur, p) == [id |-> i, current_task_id |-> cur, pomodoro_spent |-> p]

(* serde: a struct field that is not an Option is always written; an Option *)
(* is written as its value or as nothing.                                   *)
SerTask(t) ==
    [goal_name |-> {t.goal_name}, username |-> {t.username},
     task_name |-> {t.task_name}, color |-> {t.color},
     updated_at |-> {t.updated_at}, message |-> t.message,
     speed_rating |-> t.speed_rating]

SerUser(u) ==
    [id |-> {u.id}, current_task_id |-> {u.current_task_id},
     pomodoro_spent |-> {u.pomodoro_spent}]

(* serde: deserialization fails when a field that is not an Option is      *)
(* missing from the document; a missing Option field reads as None.        *)
CanDeserTask(d) ==
    \A f \in {"goal_name", "username", "task_name", "color", "updated_at"} :
        d[f] # {}

DeserTask(d) ==
    FirestoreTask(The(d.goal_name), The(d.username), The(d.task_name),
                  The(d.color), The(d.updated_at), d.message, d.speed_rating)

CanDeserUser(d) == \A f \in UserFields : d[f] # {}

DeserUser(d) ==
    User(The(d.id), The(d.current_task_id), The(d.pomodoro_spent))

(* ------------------------- store gateway ------------------------------- *)

EmptyCol == [k \in {} |-> {}]

(* select().by_id_in(col).one(id): the document at id, or none.            *)
SelectById(col, id) == IF id \in DOMAIN col THEN {col[id]} ELSE {}

(* update().fields(mask).document_id(id).object(obj): writes the masked    *)
(* fields of obj onto the document at id, creating it when absent; fields  *)
(* outside the mask keep what the document had.                            *)
UpdateFields(col, id, mask, obj, blank) ==
    LET old == IF id \in DOMAIN col THEN col[id] ELSE blank
        new == [f \in DOMAIN obj |-> IF f \in mask THEN obj[f] ELSE old[f]]
    IN  [k \in (DOMAIN col) \cup {id} |-> IF k = id THEN new ELSE col[k]]

(* select().fields(mask): the document cut down to the masked fields.      *)
Project(d, mask) == [f \in DOMAIN d |-> IF f \in mask THEN d[f] ELSE {}]

(* ----------------------------- events ---------------------------------- *)

(* The JSON bodies posted to /webhook.  A nexa.change body comes in two   *)
(* styles, (g1, c1) and (g2, c2), so that every field of a task takes two  *)
(* values.  serde ignores the properties the matched variant does not      *)
(* declare.                                                                *)
Styles == {<<"g1", "c1">>, <<"g2", "c2">>}

Payloads ==
    {[eventKey |-> "nexa.change", goalName |-> st[1], username |-> u,
      text |-> t, color |-> st[2]] :
        st \in Styles, u \in Usernames, t \in TaskNames}
    \cup
    [eventKey : {"timer.pomo.workcomplete"}, goalName : {"g1"},
     username : Usernames, text : {"t1"}, color : {"c1"}]
    \cup
    [eventKey : {"unknown.thing"}, goalName : {"g1"}, username : {"u1"},
     text : {"t1"}, color : {"c1"}]

(* mutation: no #[serde(other)] variant, an unknown key is read as the     *)
(* last declared variant                                                   *)
Event_NoOther(payload) ==
    IF payload.eventKey = "nexa.change"
    THEN [kind |-> "TaskChange", goal_name |-> payload.goalName,
          username |-> payload.username, text |-> payload.text,
          color |-> payload.color]
    ELSE [kind |-> "TimerEnd", goal_name |-> "",
          username |-> payload.username, text |-> "", color |-> ""]

(* #[serde(tag = "eventKey")] enum Event                                   *)
Event(payload) ==
    IF payload.eventKey = "nexa.change"
    THEN [kind |-> "TaskChange", goal_name |-> payload.goalName,
          username |-> payload.username, text |-> payload.text,
          color |-> payload.color]
    ELSE IF payload.eventKey = "timer.pomo.workcomplete"
    THEN [kind |-> "TimerEnd", goal_name |-> "",
          username |-> payload.username, text |-> "", color |-> ""]
    ELSE [kind |-> "Other", goal_name |-> "", username |-> "", text |-> "",
          color |-> ""]

(* ---------------------------- requests --------------------------------- *)

(* One request: the operation and its arguments, the position in the       *)
(* handler (pc), the handler's locals, and the result.  started, pre_tasks *)
(* and pre_users record the clock and the store when the request arrived;  *)
(* event_key is the eventKey of a webhook body; calls lists the store      *)
(* calls the request has issued; hist records, for every username, how     *)
(* many TimerEnd writes were applied since the service started or since    *)
(* the last TaskChange write of that user (ends), and the slot of the      *)
(* request that made that TaskChange write (last, 0 when there was none);  *)
(* fault tells why a call returned Err: the                                *)
(* store failed ("store") or the document it returned does not             *)
(* deserialize into the struct ("decode").                                 *)
IdleReq ==
    [op |-> "idle", pc |-> "idle",
     goal_name |-> "", username |-> "", task_name |-> "", color |-> "",
     message |-> "", speed_rating |-> 0,
     new_task |-> {}, task_updated |-> {}, new_pomodoro_spent |-> 0,
     user |-> {},
     status |-> "none", resp_task |-> {}, resp_user |-> {}, resp_list |-> <<>>,
     started |-> 0, pre_tasks |-> EmptyCol, pre_users |-> EmptyCol,
     event_key |-> "", calls |-> <<>>, fault |-> "none"]

Free(s) == req[s].pc \in {"idle", "done"}

InFlight == {s \in Slots : ~Free(s)}

(* the requests of a run: MaxOps when they are served one at a time,       *)
(* MaxOverlapOps when they overlap                                         *)
Budget == IF workers = 1 THEN MaxOps ELSE MaxOverlapOps

(* a new request is taken up when a worker is free; it takes the lowest    *)
(* free slot                                                               *)
CanStart(s) ==
    /\ nops < Budget
    /\ Cardinality(InFlight) < workers
    /\ Free(s)
    /\ \A r \in Slots : r < s => ~Free(r)

Arrival(op, pc) ==
    [IdleReq EXCEPT !.op = op, !.pc = pc, !.started = now,
                    !.pre_tasks = tasks, !.pre_users = users]

(* mutation: the error of a store call is dropped and the call is made     *)
(* again                                                                   *)
Fail_Retry(r, call, fault) ==
    [r EXCEPT !.calls = Append(@, call), !.fault = fault]

Fail(r, call, fault) ==
    [r EXCEPT !.pc = "done", !.status = "InternalServerError",
              !.calls = Append(@, call), !.fault = fault]

(* the handler panics after the call: the request ends without a response *)
Panic(r, call) ==
    [r EXCEPT !.pc = "done", !.status = "Panicked",
              !.calls = Append(@, call), !.fault = "panic"]

(* ------------------------------ clock ---------------------------------- *)

Tick ==
    /\ now < MaxTime
    /\ now' = now + 1
    /\ UNCHANGED <<tasks, users, req, nops, hist, conf>>

(* --------------------- POST /webhook: process_event -------------------- *)

process_event(s, payload) ==
    LET event == Event(payload) IN
    /\ CanStart(s)
    /\ nops' = nops + 1
    /\ req' = [req EXCEPT ![s] =
         IF event.kind = "TaskChange"
         THEN [Arrival("TaskChange", "tc_build") EXCEPT
                  !.event_key = payload.eventKey,
                  !.goal_name = event.goal_name, !.username = event.username,
                  !.task_name = event.text, !.color = event.color]
         ELSE IF event.kind = "TimerEnd"
         THEN [Arrival("TimerEnd", "te_select") EXCEPT
                  !.event_key = payload.eventKey,
                  !.username = event.username]
         ELSE [Arrival("Other", "done") EXCEPT
                  !.event_key = payload.eventKey, !.status = "Ok"]]
    /\ UNCHANGED <<tasks, users, now, hist, conf>>

(* ------------------------- handle_task_change -------------------------- *)

(* mutations of the write-field list of the Task write *)
TaskChangeTaskMask_NoColor ==
    {"goal_name", "username", "task_name", "updated_at"}

TaskChangeTaskMask_WholeObject == TaskFields

TaskChangeTaskMask ==
    {"goal_name", "username", "task_name", "color", "updated_at"}

(* mutation: the User write leaves pomodoro_spent out of its field list *)
TaskChangeUserMask_NoReset == {"id", "current_task_id"}

TaskChangeUserMask == {"id", "current_task_id", "pomodoro_spent"}

TaskChangeNewTask(r, at) ==
    FirestoreTask(r.goal_name, r.username, r.task_name, r.color, at, {}, {})

(* mutation: the goal name is stored as the current task *)
TaskChangeUser_GoalAsTask(r) == User(r.username, r.goal_name, 0)

TaskChangeUser(r) == User(r.username, r.task_name, 0)

(* mutation: a rename is written onto the document of the user's current  *)
(* task                                                                    *)
TaskChangeTaskKey_Rename(r) ==
    IF /\ r.username \in DOMAIN users
       /\ users[r.username].current_task_id \subseteq DOMAIN tasks
       /\ users[r.username].current_task_id # {}
    THEN The(users[r.username].current_task_id)
    ELSE r.task_name

(* document_id(&task_name) and document_id(&username) *)
TaskChangeTaskKey(r) == r.task_name

TaskChangeUserKey(r) == r.username

handle_task_change_build(s) ==
    /\ req[s].pc = "tc_build"
    /\ req' = [req EXCEPT ![s].new_task = {TaskChangeNewTask(req[s], now)},
                          ![s].pc = "tc_task_update"]
    /\ UNCHANGED <<tasks, users, now, nops, hist, conf>>

(* mutation: a failed Task write is logged and the handler goes on to the  *)
(* User write                                                              *)
handle_task_change_task_update_GoesOn(s) ==
    LET r == req[s]
        key == TaskChangeTaskKey(r)
        written == UpdateFields(tasks, key, TaskChangeTaskMask,
                                SerTask(The(r.new_task)), BlankTaskDoc)
    IN
    /\ r.pc = "tc_task_update"
    /\ \/ /\ tasks' = written
          /\ req' = [req EXCEPT ![s] =
               [r EXCEPT !.task_updated = {DeserTask(written[key])},
                         !.pc = "tc_user_update",
                         !.calls = Append(@, "tasks.update")]]
       \/ /\ req' = [req EXCEPT ![s] =
               [r EXCEPT !.task_updated = r.new_task,
                         !.pc = "tc_user_update",
                         !.calls = Append(@, "tasks.update")]]
          /\ UNCHANGED tasks
    /\ UNCHANGED <<users, now, nops, hist, conf>>

handle_task_change_task_update(s) ==
    LET r == req[s]
        key == TaskChangeTaskKey(r)
        written == UpdateFields(tasks, key, TaskChangeTaskMask,
                                SerTask(The(r.new_task)), BlankTaskDoc)
    IN
    /\ r.pc = "tc_task_update"
    /\ \/ /\ tasks' = written
          /\ req' = [req EXCEPT ![s] =
               IF CanDeserTask(written[key])
               THEN [r EXCEPT !.task_updated = {DeserTask(written[key])},
                              !.pc = "tc_user_update",
                              !.calls = Append(@, "tasks.update")]
               ELSE Fail(r, "tasks.update", "decode")]
       \/ /\ req' = [req EXCEPT ![s] = Fail(r, "tasks.update", "store")]
          /\ UNCHANGED tasks
    /\ UNCHANGED <<users, now, nops, hist, conf>>

handle_task_change_user_update(s) ==
    LET r == req[s]
        key == TaskChangeUserKey(r)
        written == UpdateFields(users, key, TaskChangeUserMask,
                                SerUser(TaskChangeUser(r)), BlankUserDoc)
    IN
    /\ r.pc = "tc_user_update"
    /\ \/ /\ users' = written
          /\ req' = [req EXCEPT ![s] =
               IF CanDeserUser(written[key])
               THEN [r EXCEPT !.pc = "done", !.status = "Ok",
                              !.resp_task = r.task_updated,
                              !.resp_user = {DeserUser(written[key])},
                              !.calls = Append(@, "users.update")]
               ELSE Fail(r, "users.update", "decode")]
          /\ hist' = [hist EXCEPT ![key] = [ends |-> 0, last |-> s]]
       \/ /\ req' = [req EXCEPT ![s] = Fail(r, "users.update", "store")]
          /\ UNCHANGED <<users, hist>>
    /\ UNCHANGED <<tasks, now, nops, conf>>

(* -------------------------- handle_timer_end --------------------------- *)

(* mutation: id is left out of the write-field list *)
TimerEndUserMask_NoId == {"pomodoro_spent"}

(* mutation: the whole User object is written *)
TimerEndUserMask_WholeObject == UserFields

TimerEndUserMask == {"id", "pomodoro_spent"}

(* mutation: the count read is written back without the increment *)
NewPomodoroSpent_NoIncrement(user) ==
    IF user = {} THEN 0 ELSE The(user).pomodoro_spent

NewPomodoroSpent(user) ==
    IF user = {} THEN 0 ELSE I32Inc(The(user).pomodoro_spent)

TimerEndUser(r) == User(r.username, "", r.new_pomodoro_spent)

handle_timer_end_select(s) ==
    LET r == req[s]
        doc == SelectById(users, r.username)
    IN
    /\ r.pc = "te_select"
    /\ \/ req' = [req EXCEPT ![s] =
            IF doc = {}
            THEN [r EXCEPT !.new_pomodoro_spent = NewPomodoroSpent({}),
                           !.pc = "te_update",
                           !.calls = Append(@, "users.select")]
            ELSE IF CanDeserUser(The(doc))
            THEN [r EXCEPT !.new_pomodoro_spent =
                               NewPomodoroSpent({DeserUser(The(doc))}),
                           !.pc = "te_update",
                           !.calls = Append(@, "users.select")]
            ELSE Fail(r, "users.select", "decode")]
       \/ req' = [req EXCEPT ![s] = Fail(r, "users.select", "store")]
       \/ /\ doc # {}
          /\ CanDeserUser(The(doc))
          /\ AddOverflows(DeserUser(The(doc)).pomodoro_spent)
          /\ req' = [req EXCEPT ![s] = Panic(r, "users.select")]
    /\ UNCHANGED <<tasks, users, now, nops, hist, conf>>

handle_timer_end_update(s) ==
    LET r == req[s]
        written == UpdateFields(users, r.username, TimerEndUserMask,
                                SerUser(TimerEndUser(r)), BlankUserDoc)
    IN
    /\ r.pc = "te_update"
    /\ \/ /\ users' = written
          /\ req' = [req EXCEPT ![s] =
               IF CanDeserUser(written[r.username])
               THEN [r EXCEPT !.pc = "done", !.status = "Ok",
                              !.resp_user = {DeserUser(written[r.username])},
                              !.calls = Append(@, "users.update")]
               ELSE Fail(r, "users.update", "decode")]
          /\ hist' = [hist EXCEPT ![r.username].ends = @ + 1]
       \/ /\ req' = [req EXCEPT ![s] = Fail(r, "users.update", "store")]
          /\ UNCHANGED <<users, hist>>
    /\ UNCHANGED <<tasks, now, nops, conf>>

(* ------------- GET /users/{userId}/tasks: get_user_tasks --------------- *)

UserTasksMask ==
    {"goal_name", "username", "task_name", "color", "updated_at"}

(* filter(username == user_id) *)
UserTaskKeys(col, user_id) ==
    {k \in DOMAIN col : col[k].username = {user_id}}

(* mutation: the query orders ascending *)
Descending_Ascending(col, ks) ==
    \A i \in 1..(Len(ks) - 1) :
        The(col[ks[i]].updated_at) <= The(col[ks[i + 1]].updated_at)

(* order_by(updated_at, Descending): the store fixes no order among equal  *)
(* timestamps that the handler relies on; every ordering is allowed.       *)
Descending(col, ks) ==
    \A i \in 1..(Len(ks) - 1) :
        The(col[ks[i]].updated_at) >= The(col[ks[i + 1]].updated_at)

UserTasksQuery(col, user_id) ==
    LET K == UserTaskKeys(col, user_id)
        orders == {ks \in [1..Cardinality(K) -> K] :
                     /\ \A i, j \in 1..Cardinality(K) : i # j => ks[i] # ks[j]
                     /\ Descending(col, ks)}
    IN  {[i \in 1..Cardinality(K) |-> Project(col[ks[i]], UserTasksMask)] :
            ks \in orders}

get_user_tasks_handler(s, user_id) ==
    /\ CanStart(s)
    /\ nops' = nops + 1
    /\ req' = [req EXCEPT ![s] =
         [Arrival("get_user_tasks", "ut_query") EXCEPT !.username = user_id]]
    /\ UNCHANGED <<tasks, users, now, hist, conf>>

get_user_tasks_query(s) ==
    LET r == req[s] IN
    /\ r.pc = "ut_query"
    /\ \/ \E docs \in UserTasksQuery(tasks, r.username) :
            req' = [req EXCEPT ![s] =
              IF \A i \in 1..Len(docs) : CanDeserTask(docs[i])
              THEN [r EXCEPT !.pc = "done", !.status = "Ok",
                             !.resp_list =
                                [i \in 1..Len(docs) |-> DeserTask(docs[i])],
                             !.calls = Append(@, "tasks.query")]
              ELSE Fail(r, "tasks.query", "decode")]
       \/ req' = [req EXCEPT ![s] = Fail(r, "tasks.query", "store")]
    /\ UNCHANGED <<tasks, users, now, nops, hist, conf>>

(* ------- GET /users/{userId}/currentTask: get_user_current_task -------- *)

get_user_current_task_handler(s, user_id) ==
    /\ CanStart(s)
    /\ nops' = nops + 1
    /\ req' = [req EXCEPT ![s] =
         [Arrival("get_user_current_task", "ct_user") EXCEPT
             !.username = user_id]]
    /\ UNCHANGED <<tasks, users, now, hist, conf>>

(* mutation: the empty current_task_id is looked up like any other *)
NoCurrentTask_Never(user) == FALSE

(* user.current_task_id.is_empty() *)
NoCurrentTask(user) == user.current_task_id = ""

get_user_current_task_user(s) ==
    LET r == req[s]
        doc == SelectById(users, r.username)
    IN
    /\ r.pc = "ct_user"
    /\ \/ req' = [req EXCEPT ![s] =
            IF doc = {}
            THEN [r EXCEPT !.pc = "done", !.status = "Ok",
                           !.calls = Append(@, "users.select")]
            ELSE IF ~CanDeserUser(The(doc))
            THEN Fail(r, "users.select", "decode")
            ELSE IF NoCurrentTask(DeserUser(The(doc)))
            THEN [r EXCEPT !.pc = "done", !.status = "Ok",
                           !.user = {DeserUser(The(doc))},
                           !.calls = Append(@, "users.select")]
            ELSE [r EXCEPT !.pc = "ct_task",
                           !.user = {DeserUser(The(doc))},
                           !.calls = Append(@, "users.select")]]
       \/ req' = [req EXCEPT ![s] = Fail(r, "users.select", "store")]
    /\ UNCHANGED <<tasks, users, now, nops, hist, conf>>

get_user_current_task_task(s) ==
    LET r == req[s]
        doc == SelectById(tasks, The(r.user).current_task_id)
    IN
    /\ r.pc = "ct_task"
    /\ \/ req' = [req EXCEPT ![s] =
            IF doc = {}
            THEN [r EXCEPT !.pc = "done", !.status = "Ok",
                           !.calls = Append(@, "tasks.select")]
            ELSE IF CanDeserTask(The(doc))
            THEN [r EXCEPT !.pc = "done", !.status = "Ok",
                           !.resp_task = {DeserTask(The(doc))},
                           !.calls = Append(@, "tasks.select")]
            ELSE Fail(r, "tasks.select", "decode")]
       \/ req' = [req EXCEPT ![s] = Fail(r, "tasks.select", "store")]
    /\ UNCHANGED <<tasks, users, now, nops, hist, conf>>

(* ---- POST /users/{userId}/tasks/{taskName}/speedRating ---------------- *)

SpeedRatingMask == {"updated_at", "speed_rating"}

SpeedRatingTask(r, at) ==
    FirestoreTask("", "", r.task_name, "", at, {}, {r.speed_rating})

update_speed_rating_handler(s, task_name, speed_rating) ==
    /\ CanStart(s)
    /\ nops' = nops + 1
    /\ req' = [req EXCEPT ![s] =
         [Arrival("update_speed_rating", "sr_select") EXCEPT
             !.task_name = task_name, !.speed_rating = speed_rating]]
    /\ UNCHANGED <<tasks, users, now, hist, conf>>

(* mutation: the guard read lets a missing task through *)
FindTask_NoGuard(r, next) ==
    LET doc == SelectById(tasks, r.task_name) IN
    IF doc = {} \/ CanDeserTask(The(doc))
    THEN [r EXCEPT !.pc = next, !.calls = Append(@, "tasks.select")]
    ELSE Fail(r, "tasks.select", "decode")

(* the guard read shared by update_speed_rating and update_message *)
FindTask(r, next) ==
    LET doc == SelectById(tasks, r.task_name) IN
    IF doc = {}
    THEN [r EXCEPT !.pc = "done", !.status = "NotFound",
                   !.calls = Append(@, "tasks.select")]
    ELSE IF CanDeserTask(The(doc))
    THEN [r EXCEPT !.pc = next, !.calls = Append(@, "tasks.select")]
    ELSE Fail(r, "tasks.select", "decode")

update_speed_rating_select(s) ==
    LET r == req[s] IN
    /\ r.pc = "sr_select"
    /\ \/ req' = [req EXCEPT ![s] = FindTask(r, "sr_build")]
       \/ req' = [req EXCEPT ![s] = Fail(r, "tasks.select", "store")]
    /\ UNCHANGED <<tasks, users, now, nops, hist, conf>>

update_speed_rating_build(s) ==
    /\ req[s].pc = "sr_build"
    /\ req' = [req EXCEPT ![s].new_task = {SpeedRatingTask(req[s], now)},
                          ![s].pc = "sr_update"]
    /\ UNCHANGED <<tasks, users, now, nops, hist, conf>>

update_speed_rating_update(s) ==
    LET r == req[s]
        written == UpdateFields(tasks, r.task_name, SpeedRatingMask,
                                SerTask(The(r.new_task)), BlankTaskDoc)
    IN
    /\ r.pc = "sr_update"
    /\ \/ /\ tasks' = written
          /\ req' = [req EXCEPT ![s] =
               IF CanDeserTask(written[r.task_name])
               THEN [r EXCEPT !.pc = "done", !.status = "Ok",
                              !.resp_task = {DeserTask(written[r.task_name])},
                              !.calls = Append(@, "tasks.update")]
               ELSE Fail(r, "tasks.update", "decode")]
       \/ /\ req' = [req EXCEPT ![s] = Fail(r, "tasks.update", "store")]
          /\ UNCHANGED tasks
    /\ UNCHANGED <<users, now, nops, hist, conf>>

(* ---- POST /users/{userId}/tasks/{taskName}/message -------------------- *)

(* mutation: username is in the write-field list *)
MessageMask_WithUsername == {"updated_at", "message", "username"}

MessageMask == {"updated_at", "message"}

MessageTask(r, at) ==
    FirestoreTask("", r.username, r.task_name, "", at, {r.message}, {})

update_message_handler(s, user_id, task_name, message) ==
    /\ CanStart(s)
    /\ nops' = nops + 1
    /\ req' = [req EXCEPT ![s] =
         [Arrival("update_message", "um_select") EXCEPT
             !.username = user_id, !.task_name = task_name,
             !.message = message]]
    /\ UNCHANGED <<tasks, users, now, hist, conf>>

update_message_select(s) ==
    LET r == req[s] IN
    /\ r.pc = "um_select"
    /\ \/ req' = [req EXCEPT ![s] = FindTask(r, "um_build")]
       \/ req' = [req EXCEPT ![s] = Fail(r, "tasks.select", "store")]
    /\ UNCHANGED <<tasks, users, now, nops, hist, conf>>

update_message_build(s) ==
    /\ req[s].pc = "um_build"
    /\ req' = [req EXCEPT ![s].new_task = {MessageTask(req[s], now)},
                          ![s].pc = "um_update"]
    /\ UNCHANGED <<tasks, users, now, nops, hist, conf>>

update_message_update(s) ==
    LET r == req[s]
        written == UpdateFields(tasks, r.task_name, MessageMask,
                                SerTask(The(r.new_task)), BlankTaskDoc)
    IN
    /\ r.pc = "um_update"
    /\ \/ /\ tasks' = written
          /\ req' = [req EXCEPT ![s] =
               IF CanDeserTask(written[r.task_name])
               THEN [r EXCEPT !.pc = "done", !.status = "Ok",
                              !.resp_task = {DeserTask(written[r.task_name])},
                              !.calls = Append(@, "tasks.update")]
               ELSE Fail(r, "tasks.update", "decode")]
       \/ /\ req' = [req EXCEPT ![s] = Fail(r, "tasks.update", "store")]
          /\ UNCHANGED tasks
    /\ UNCHANGED <<users, now, nops, hist, conf>>

(* ------------------------- the state machine --------------------------- *)

(* The store when the service starts: empty, or holding documents written  *)
(* before: an enriched task of u1, u1 with no current task, and u2 whose   *)
(* current task has been deleted from the tasks collection.                *)
LegacyTasks ==
    [t \in {"t1"} |->
        SerTask(FirestoreTask("g1", "u1", "t1", "c1", 0, {"m1"}, {1}))]

LegacyUsers ==
    [u \in Usernames |->
        IF u = "u1" THEN SerUser(User("u1", "", 1))
                    ELSE SerUser(User(u, "t2", 2))]

Start(w) ==
    /\ seed \in {"empty", "legacy"}
    /\ workers = w
    /\ tasks = IF seed = "empty" THEN EmptyCol ELSE LegacyTasks
    /\ users = IF seed = "empty" THEN EmptyCol ELSE LegacyUsers
    /\ now = 0
    /\ req = [s \in Slots |-> IdleReq]
    /\ nops = 0
    /\ hist = [u \in Usernames |-> [ends |-> 0, last |-> 0]]

Init == Start(MaxInFlight)

Next ==
    \/ Tick
    \/ \E s \in Slots :
          \/ \E payload \in Payloads : process_event(s, payload)
          \/ \E u \in Usernames : get_user_tasks_handler(s, u)
          \/ \E u \in Usernames : get_user_current_task_handler(s, u)
          \/ \E t \in TaskNames, sr \in Ratings :
                update_speed_rating_handler(s, t, sr)
          \/ \E u \in Usernames, t \in TaskNames :
                update_message_handler(s, u, t, MessageOf(u))
          \/ handle_task_change_build(s)
          \/ handle_task_change_task_update(s)
          \/ handle_task_change_user_update(s)
          \/ handle_timer_end_select(s)
          \/ handle_timer_end_update(s)
          \/ get_user_tasks_query(s)
          \/ get_user_current_task_user(s)
          \/ get_user_current_task_task(s)
          \/ update_speed_rating_select(s)
          \/ update_speed_rating_build(s)
          \/ update_speed_rating_update(s)
          \/ update_message_select(s)
          \/ update_message_build(s)
          \/ update_message_update(s)

(* requests are served concurrently, MaxInFlight at a time *)
Spec == Init /\ [][Next]_vars

(* the same, on a store that starts empty *)
InitEmpty == Init /\ seed = "empty"

SpecEmpty == InitEmpty /\ [][Next]_vars

(* one request at a time: a request arrives only when none is in flight *)
InitSeq == Start(1)

SpecSeq == InitSeq /\ [][Next]_vars

(* TimerEnd events only, over the store that holds users, served one at a  *)
(* time or concurrently                                                    *)
TimerEndPayloads ==
    {p \in Payloads : p.eventKey = "timer.pomo.workcomplete"}

InitTimerEnd ==
    /\ \E w \in 1..MaxInFlight : Start(w)
    /\ seed = "legacy"

NextTimerEnd ==
    \/ Tick
    \/ \E s \in Slots :
          \/ \E payload \in TimerEndPayloads : process_event(s, payload)
          \/ handle_timer_end_select(s)
          \/ handle_timer_end_update(s)

SpecTimerEnd == InitTimerEnd /\ [][NextTimerEnd]_vars

(* TaskChange events only, served concurrently *)
TaskChangePayloads == {p \in Payloads : p.eventKey = "nexa.change"}

NextTaskChange ==
    \/ Tick
    \/ \E s \in Slots :
          \/ \E payload \in TaskChangePayloads : process_event(s, payload)
          \/ handle_task_change_build(s)
          \/ handle_task_change_task_update(s)
          \/ handle_task_change_user_update(s)

SpecTaskChange == Init /\ [][NextTaskChange]_vars

(* webhook events only, served one at a time, over a store in which u1     *)
(* has the largest pomodoro_spent an i32 holds                             *)
BrimUsers ==
    [u \in {"u1"} |-> SerUser(User("u1", "", I32Max))]

InitBrim ==
    /\ seed = "brim"
    /\ workers = 1
    /\ tasks = EmptyCol
    /\ users = BrimUsers
    /\ now = 0
    /\ req = [s \in Slots |-> IdleReq]
    /\ nops = 0
    /\ hist = [u \in Usernames |-> [ends |-> 0, last |-> 0]]

NextWebhook ==
    \/ Tick
    \/ \E s \in Slots :
          \/ \E payload \in Payloads : process_event(s, payload)
          \/ handle_task_change_build(s)
          \/ handle_task_change_task_update(s)
          \/ handle_task_change_user_update(s)
          \/ handle_timer_end_select(s)
          \/ handle_timer_end_update(s)

SpecBrim == InitBrim /\ [][NextWebhook]_vars

TypeOK ==
    /\ DOMAIN tasks \subseteq TaskNames
    /\ DOMAIN users \subseteq Usernames
    /\ now \in 0..MaxTime
    /\ nops \in 0..MaxOps
    /\ workers \in 1..MaxInFlight
    /\ \A s \in Slots :
          req[s].status \in {"none", "Ok", "NotFound", "InternalServerError",
                              "Panicked"}
    /\ \A u \in Usernames :
          hist[u].ends \in 0..MaxOps /\ hist[u].last \in {0} \cup Slots

(* ============================ properties =============================== *)

(* a request of kind op has returned *)
Done(s, op) == req[s].pc = "done" /\ req[s].op = op

(* the store calls of the request all returned a document or none *)
StoreUp(s) == req[s].fault # "store"

(* the other documents of a collection are as they were when r arrived *)
OthersKept(col, pre, key) ==
    /\ DOMAIN col \ {key} = DOMAIN pre \ {key}
    /\ \A k \in DOMAIN pre \ {key} : col[k] = pre[k]

(* C1: after a TaskChange (g, u, t, c) whose two writes succeeded, the     *)
(* tasks document at key t carries goal_name g, username u, task_name t,   *)
(* color c and an updated_at not earlier than the arrival of the request,  *)
(* whatever was stored at t before.                                        *)
C1_TaskChangeStoresTask ==
    \A s \in Slots :
        LET r == req[s] IN
        (Done(s, "TaskChange") /\ r.status = "Ok") =>
            /\ r.task_name \in DOMAIN tasks
            /\ tasks[r.task_name].goal_name = {r.goal_name}
            /\ tasks[r.task_name].username = {r.username}
            /\ tasks[r.task_name].task_name = {r.task_name}
            /\ tasks[r.task_name].color = {r.color}
            /\ \E at \in tasks[r.task_name].updated_at : at >= r.started

(* a TaskChange has overwritten a document that had another goal, another  *)
(* user and another colour, with a stamp later than its arrival            *)
C1_Witness ==
    \E s \in Slots :
        LET r == req[s] IN
        /\ Done(s, "TaskChange") /\ r.status = "Ok"
        /\ r.task_name \in DOMAIN r.pre_tasks
        /\ r.pre_tasks[r.task_name].goal_name # {r.goal_name}
        /\ r.pre_tasks[r.task_name].username # {r.username}
        /\ r.pre_tasks[r.task_name].color # {r.color}
        /\ \E at \in tasks[r.task_name].updated_at : at > r.started

(* C2: after a TaskChange (u, t) whose two writes succeeded, the users     *)
(* document at key u has id u, current_task_id t and pomodoro_spent 0,     *)
(* whatever was stored at u before.                                        *)
C2_TaskChangeResetsUser ==
    \A s \in Slots :
        LET r == req[s] IN
        (Done(s, "TaskChange") /\ r.status = "Ok") =>
            /\ r.username \in DOMAIN users
            /\ users[r.username] = SerUser(User(r.username, r.task_name, 0))

(* a TaskChange has reset a user who had a positive count and another      *)
(* current task                                                            *)
C2_Witness ==
    \E s \in Slots :
        LET r == req[s] IN
        /\ Done(s, "TaskChange") /\ r.status = "Ok"
        /\ r.username \in DOMAIN r.pre_users
        /\ \E n \in r.pre_users[r.username].pomodoro_spent : n > 0
        /\ r.pre_users[r.username].current_task_id # {r.task_name}
        /\ users[r.username].pomodoro_spent = {0}

(* C3: a TimerEnd for u, served alone and with the store answering: if no  *)
(* users document was at u, one is there afterwards with pomodoro_spent 0; *)
(* if one was there with pomodoro_spent n, it has n + 1 afterwards; and    *)
(* the response carries a user with that count.                            *)
C3_TimerEndCounts ==
    \A s \in Slots :
        LET r == req[s]
            count == IF r.username \in DOMAIN r.pre_users
                     THEN {n + 1 : n \in r.pre_users[r.username].pomodoro_spent}
                     ELSE {0}
        IN
        (Done(s, "TimerEnd") /\ StoreUp(s)) =>
            /\ r.username \in DOMAIN users
            /\ users[r.username].pomodoro_spent = count
            /\ r.status = "Ok"
            /\ {u.pomodoro_spent : u \in r.resp_user} = count

(* C4: update_speed_rating and update_message on a task_name with no tasks *)
(* document write nothing: every tasks and users document is as it was, no *)
(* update call is issued, and the request fails, with NotFound when the    *)
(* guard read was answered.                                                *)
C4_MissingTaskNotFound ==
    \A s \in Slots :
        LET r == req[s] IN
        ((Done(s, "update_speed_rating") \/ Done(s, "update_message"))
         /\ r.task_name \notin DOMAIN r.pre_tasks) =>
            /\ tasks = r.pre_tasks
            /\ users = r.pre_users
            /\ r.calls = <<"tasks.select">>
            /\ r.status # "Ok"
            /\ StoreUp(s) => r.status = "NotFound"

(* an update of a missing task has returned NotFound while other documents *)
(* were in the store                                                       *)
C4_Witness ==
    \E s \in Slots :
        LET r == req[s] IN
        /\ Done(s, "update_message")
        /\ r.task_name \notin DOMAIN r.pre_tasks
        /\ r.status = "NotFound"
        /\ DOMAIN tasks # {}
        /\ DOMAIN users # {}

(* C5: on an existing task, update_speed_rating changes only updated_at    *)
(* and speed_rating of that document and update_message only updated_at    *)
(* and message; every other field of it, and every other document, is as   *)
(* it was; a successful call leaves the submitted rating, or message, on   *)
(* the document.                                                           *)
C5_UpdatesTouchOnlyTheirFields ==
    \A s \in Slots :
        LET r == req[s]
            t == r.task_name
        IN
        /\ (Done(s, "update_speed_rating") /\ t \in DOMAIN r.pre_tasks) =>
              /\ t \in DOMAIN tasks
              /\ \A f \in TaskFields \ {"updated_at", "speed_rating"} :
                    tasks[t][f] = r.pre_tasks[t][f]
              /\ OthersKept(tasks, r.pre_tasks, t)
              /\ users = r.pre_users
              /\ r.status = "Ok" => tasks[t].speed_rating = {r.speed_rating}
        /\ (Done(s, "update_message") /\ t \in DOMAIN r.pre_tasks) =>
              /\ t \in DOMAIN tasks
              /\ \A f \in TaskFields \ {"updated_at", "message"} :
                    tasks[t][f] = r.pre_tasks[t][f]
              /\ OthersKept(tasks, r.pre_tasks, t)
              /\ users = r.pre_users
              /\ r.status = "Ok" => tasks[t].message = {r.message}

(* update_message, called with a user_id that is not the task's username,  *)
(* has replaced the message of a task that has a speed rating              *)
C5_Witness ==
    \E s \in Slots :
        LET r == req[s]
            t == r.task_name
        IN
        /\ Done(s, "update_message") /\ r.status = "Ok"
        /\ t \in DOMAIN r.pre_tasks
        /\ r.pre_tasks[t].username # {r.username}
        /\ r.pre_tasks[t].speed_rating # {}
        /\ r.pre_tasks[t].message \notin {{}, {r.message}}
        /\ tasks[t].message = {r.message}
        /\ tasks[t].updated_at # r.pre_tasks[t].updated_at

(* C6: get_user_current_task(user_id), with the store answering and the   *)
(* users document at user_id, when there is one, holding every field of a  *)
(* User, returns Ok: with no task when there is no users document, when    *)
(* current_task_id is "", and when no tasks document is stored at          *)
(* current_task_id; with the tasks document at current_task_id otherwise.  *)
(* It reads the tasks collection only for a user with a non-empty          *)
(* current_task_id, and it never writes.                                   *)
C6_CurrentTask ==
    \A s \in Slots :
        LET r == req[s]
            u == r.username
            known == u \in DOMAIN users
            cur == IF known THEN users[u].current_task_id ELSE {}
        IN
        Done(s, "get_user_current_task") =>
            /\ tasks = r.pre_tasks
            /\ users = r.pre_users
            /\ \A i \in 1..Len(r.calls) :
                  r.calls[i] \in {"users.select", "tasks.select"}
            /\ (StoreUp(s) /\ (known => CanDeserUser(users[u]))) =>
                  /\ r.status = "Ok"
                  /\ r.resp_task =
                        IF ~known \/ cur = {""} \/ ~(cur \subseteq DOMAIN tasks)
                        THEN {}
                        ELSE {DeserTask(tasks[The(cur)])}
                  /\ r.calls =
                        IF known /\ cur # {""}
                        THEN <<"users.select", "tasks.select">>
                        ELSE <<"users.select">>

(* get_user_current_task has returned an enriched task *)
C6_Witness ==
    \E s \in Slots :
        LET r == req[s] IN
        /\ Done(s, "get_user_current_task") /\ r.status = "Ok"
        /\ \E t \in r.resp_task :
              /\ t.message # {}
              /\ t.task_name \in DOMAIN tasks
              /\ users[r.username].current_task_id = {t.task_name}

(* get_user_tasks has returned, each once, the tasks whose username is     *)
(* user_id                                                                 *)
ListsTheUsersTasks(r) ==
    /\ Len(r.resp_list) = Cardinality(UserTaskKeys(tasks, r.username))
    /\ {r.resp_list[i].task_name : i \in 1..Len(r.resp_list)} =
          UserTaskKeys(tasks, r.username)

(* C7 as claimed: get_user_tasks returns exactly the tasks of the user,    *)
(* each once, with strictly descending updated_at.                         *)
C7_StrictlyDescending ==
    \A s \in Slots :
        LET r == req[s] IN
        (Done(s, "get_user_tasks") /\ r.status = "Ok") =>
            /\ ListsTheUsersTasks(r)
            /\ \A i \in 1..(Len(r.resp_list) - 1) :
                  r.resp_list[i].updated_at > r.resp_list[i + 1].updated_at

(* C7: get_user_tasks, with the store answering, returns Ok with exactly   *)
(* the tasks whose username is user_id, each once and with the goal_name,  *)
(* username, task_name, color and updated_at of its document, in a         *)
(* sequence whose updated_at never increases; two tasks with the same      *)
(* stamp may be adjacent.  A user with no tasks gets the empty sequence.   *)
C7_Descending ==
    \A s \in Slots :
        LET r == req[s] IN
        Done(s, "get_user_tasks") =>
            /\ tasks = r.pre_tasks
            /\ users = r.pre_users
            /\ StoreUp(s) => r.status = "Ok"
            /\ r.status = "Ok" =>
                  /\ ListsTheUsersTasks(r)
                  /\ \A i \in 1..Len(r.resp_list) :
                        LET t == r.resp_list[i] IN
                        \A f \in UserTasksMask :
                            tasks[t.task_name][f] = {t[f]}
                  /\ \A i \in 1..(Len(r.resp_list) - 1) :
                        r.resp_list[i].updated_at >=
                            r.resp_list[i + 1].updated_at

(* get_user_tasks has returned two tasks with the same stamp *)
C7_Witness ==
    \E s \in Slots :
        LET r == req[s] IN
        /\ Done(s, "get_user_tasks") /\ r.status = "Ok"
        /\ Len(r.resp_list) = 2
        /\ r.resp_list[1].updated_at = r.resp_list[2].updated_at

(* C8: process_event runs one handler at most.  A nexa.change body runs    *)
(* handle_task_change alone (a tasks write, then a users write) and its    *)
(* response has task and user; a timer.pomo.workcomplete body runs         *)
(* handle_timer_end alone (a users read, then a users write) and its       *)
(* response has user and no task; any other eventKey decodes to Other,     *)
(* issues no store call, leaves the store as it was and returns Ok with    *)
(* neither.                                                                *)
C8_OneHandlerPerEvent ==
    \A s \in Slots :
        LET r == req[s] IN
        r.event_key # "" =>
            /\ r.event_key = "nexa.change" <=> r.op = "TaskChange"
            /\ r.event_key = "timer.pomo.workcomplete" <=> r.op = "TimerEnd"
            /\ r.event_key \notin {"nexa.change", "timer.pomo.workcomplete"}
                  <=> r.op = "Other"
            /\ r.op = "TaskChange" =>
                  /\ r.calls \in {<<>>, <<"tasks.update">>,
                                  <<"tasks.update", "users.update">>}
                  /\ (r.pc = "done" /\ r.status = "Ok") =>
                        r.resp_task # {} /\ r.resp_user # {}
                  /\ r.status # "Ok" => r.resp_task = {} /\ r.resp_user = {}
            /\ r.op = "TimerEnd" =>
                  /\ r.calls \in {<<>>, <<"users.select">>,
                                  <<"users.select", "users.update">>}
                  /\ tasks = r.pre_tasks
                  /\ r.resp_task = {}
                  /\ (r.pc = "done" /\ r.status = "Ok") => r.resp_user # {}
                  /\ r.status # "Ok" => r.resp_user = {}
            /\ r.op = "Other" =>
                  /\ r.pc = "done" /\ r.status = "Ok"
                  /\ r.calls = <<>>
                  /\ tasks = r.pre_tasks /\ users = r.pre_users
                  /\ r.resp_task = {} /\ r.resp_user = {}

(* an event with an unknown eventKey has been answered over a store that   *)
(* holds documents                                                         *)
C8_Witness ==
    \E s \in Slots :
        LET r == req[s] IN
        /\ Done(s, "Other") /\ r.event_key = "unknown.thing"
        /\ r.status = "Ok"
        /\ DOMAIN tasks # {} /\ DOMAIN users # {}
        /\ seed = "empty"

(* C9: a TaskChange whose task text is the key of an existing tasks        *)
(* document leaves message and speed_rating of that document as they were. *)
C9_TaskChangeKeepsEnrichment ==
    \A s \in Slots :
        LET r == req[s]
            t == r.task_name
        IN
        (Done(s, "TaskChange") /\ t \in DOMAIN r.pre_tasks) =>
            /\ t \in DOMAIN tasks
            /\ tasks[t].message = r.pre_tasks[t].message
            /\ tasks[t].speed_rating = r.pre_tasks[t].speed_rating

(* a TaskChange has rewritten a task that has a message and a speed rating *)
C9_Witness ==
    \E s \in Slots :
        LET r == req[s]
            t == r.task_name
        IN
        /\ Done(s, "TaskChange") /\ r.status = "Ok"
        /\ t \in DOMAIN r.pre_tasks
        /\ r.pre_tasks[t].message # {}
        /\ r.pre_tasks[t].speed_rating # {}
        /\ tasks[t].goal_name # r.pre_tasks[t].goal_name
        /\ tasks[t].message = r.pre_tasks[t].message

(* C10: a TaskChange (u, t) changes at most the tasks document at t and    *)
(* the users document at u: every other document is as it was and no       *)
(* other document appears.                                                 *)
C10_TaskChangeFrame ==
    \A s \in Slots :
        LET r == req[s] IN
        r.op = "TaskChange" =>
            /\ OthersKept(tasks, r.pre_tasks, r.task_name)
            /\ OthersKept(users, r.pre_users, r.username)

(* a rename: the user's current task was another document, which is        *)
(* still as it was beside the new one                                      *)
C10_Witness ==
    \E s \in Slots :
        LET r == req[s] IN
        /\ Done(s, "TaskChange") /\ r.status = "Ok"
        /\ r.username \in DOMAIN r.pre_users
        /\ r.task_name \notin DOMAIN r.pre_tasks
        /\ \E old \in r.pre_users[r.username].current_task_id :
              /\ old # r.task_name
              /\ old \in DOMAIN r.pre_tasks
              /\ tasks[old] = r.pre_tasks[old]
        /\ users[r.username].current_task_id = {r.task_name}
        /\ DOMAIN users = Usernames

(* C11: in handle_task_change the Task write comes before the User write.  *)
(* When the Task write fails no User write is issued and the users         *)
(* collection is as it was; when the Task write succeeds and the User      *)
(* write fails the request returns an error, the tasks document keeps the  *)
(* new values and the users collection is as it was.  In every operation a *)
(* failed store call ends the request with an error: it is the last call   *)
(* of the request and no call is made twice.                               *)
C11_FailureEndsRequest ==
    \A s \in Slots :
        LET r == req[s] IN
        /\ r.fault = "store" =>
              /\ r.pc = "done"
              /\ r.status = "InternalServerError"
              /\ r.resp_task = {} /\ r.resp_user = {} /\ r.resp_list = <<>>
        /\ \A i, j \in 1..Len(r.calls) : i # j => r.calls[i] # r.calls[j]
        /\ r.op = "TaskChange" =>
              /\ r.calls \in {<<>>, <<"tasks.update">>,
                              <<"tasks.update", "users.update">>}
              /\ (r.fault = "store" /\ r.calls = <<"tasks.update">>) =>
                    /\ tasks = r.pre_tasks
                    /\ users = r.pre_users
              /\ (r.fault = "store" /\ Len(r.calls) = 2) =>
                    /\ users = r.pre_users
                    /\ r.task_name \in DOMAIN tasks
                    /\ \A f \in TaskChangeTaskMask :
                          tasks[r.task_name][f] = SerTask(The(r.new_task))[f]

(* the User write of a TaskChange has failed after its Task write replaced *)
(* a document, and the user still has the former current task              *)
C11_Witness ==
    \E s \in Slots :
        LET r == req[s] IN
        /\ Done(s, "TaskChange") /\ r.fault = "store"
        /\ r.calls = <<"tasks.update", "users.update">>
        /\ r.task_name \in DOMAIN r.pre_tasks
        /\ tasks[r.task_name] # r.pre_tasks[r.task_name]
        /\ r.username \in DOMAIN users
        /\ users[r.username].current_task_id # {r.task_name}

(* get_user_current_task as a function of the store: the result and the    *)
(* task it carries                                                         *)
CurrentTaskOf(tcol, ucol, user_id) ==
    LET user == SelectById(ucol, user_id) IN
    IF user = {} THEN <<"Ok", {}>>
    ELSE IF ~CanDeserUser(The(user)) THEN <<"InternalServerError", {}>>
    ELSE IF NoCurrentTask(DeserUser(The(user))) THEN <<"Ok", {}>>
    ELSE LET task == SelectById(tcol, DeserUser(The(user)).current_task_id)
         IN  IF task = {} THEN <<"Ok", {}>>
             ELSE IF CanDeserTask(The(task))
             THEN <<"Ok", {DeserTask(The(task))}>>
             ELSE <<"InternalServerError", {}>>

(* C12: a TimerEnd for a user who has a users document leaves the stored   *)
(* current_task_id of that document as it was, so get_user_current_task    *)
(* for that user gives the same result after the TimerEnd as before it.    *)
C12_TimerEndKeepsCurrentTask ==
    \A s \in Slots :
        LET r == req[s]
            u == r.username
        IN
        (Done(s, "TimerEnd") /\ u \in DOMAIN r.pre_users) =>
            /\ u \in DOMAIN users
            /\ users[u].current_task_id = r.pre_users[u].current_task_id
            /\ CurrentTaskOf(tasks, users, u) =
                  CurrentTaskOf(r.pre_tasks, r.pre_users, u)

(* a TimerEnd has counted a pomodoro for a user whose current task is a    *)
(* stored document                                                         *)
C12_Witness ==
    \E s \in Slots :
        LET r == req[s]
            u == r.username
        IN
        /\ Done(s, "TimerEnd") /\ r.status = "Ok"
        /\ u \in DOMAIN r.pre_users
        /\ users[u].pomodoro_spent # r.pre_users[u].pomodoro_spent
        /\ CurrentTaskOf(tasks, users, u)[2] # {}

(* C13: with TimerEnd events only, over users that have a document with   *)
(* pomodoro_spent n: every TimerEnd writes the count it read plus 1, so    *)
(* after k TimerEnd writes for a user the count lies in n + 1 .. n + k;    *)
(* it is n + k when the requests are served one at a time.                 *)
C13_TimerEndCountBounds ==
    /\ \A u \in Usernames :
          LET n == The(LegacyUsers[u].pomodoro_spent)
              k == hist[u].ends
          IN
          \E c \in users[u].pomodoro_spent :
              /\ k = 0 => c = n
              /\ k >= 1 => c \in (n + 1)..(n + k)
              /\ workers = 1 => c = n + k
    /\ \A s \in Slots :
          LET r == req[s] IN
          (Done(s, "TimerEnd") /\ r.status = "Ok") =>
              /\ \E u \in r.resp_user :
                    u.pomodoro_spent = r.new_pomodoro_spent
              /\ r.new_pomodoro_spent \in
                    {p + 1 : p \in
                        {The(LegacyUsers[r.username].pomodoro_spent) + i :
                            i \in 0..(hist[r.username].ends - 1)}}

(* a lost update: two TimerEnd requests for one user have both returned    *)
(* Ok and the count has grown by one                                       *)
C13_Witness ==
    \E u \in Usernames :
        /\ \A s \in 1..2 :
              /\ Done(s, "TimerEnd") /\ req[s].status = "Ok"
              /\ req[s].username = u
        /\ nops = 2
        /\ hist[u].ends = 2
        /\ users[u].pomodoro_spent =
              {The(LegacyUsers[u].pomodoro_spent) + 1}

(* C14: two TaskChange events for one username u with texts t1 # t2,       *)
(* served concurrently, the only requests of the run, both returned Ok:    *)
(* the tasks documents at t1 and t2 carry the fields of their requests,    *)
(* and the users document at u has pomodoro_spent 0 and, as                *)
(* current_task_id, the text of the request whose User write came last.    *)
C14_LastUserWriteWins ==
    \A s1, s2 \in Slots :
        LET r1 == req[s1]
            r2 == req[s2]
            u == r1.username
        IN
        (/\ s1 # s2 /\ nops = 2
         /\ Done(s1, "TaskChange") /\ r1.status = "Ok"
         /\ Done(s2, "TaskChange") /\ r2.status = "Ok"
         /\ r2.username = u /\ r1.task_name # r2.task_name) =>
            /\ \A r \in {r1, r2} :
                  /\ r.task_name \in DOMAIN tasks
                  /\ tasks[r.task_name].goal_name = {r.goal_name}
                  /\ tasks[r.task_name].username = {u}
                  /\ tasks[r.task_name].task_name = {r.task_name}
                  /\ tasks[r.task_name].color = {r.color}
            /\ hist[u].last \in {s1, s2}
            /\ users[u] = SerUser(User(u, req[hist[u].last].task_name, 0))

(* of two concurrent TaskChange events for one user, the one that arrived  *)
(* first made its User write last and its text is the current task         *)
C14_Witness ==
    \E u \in Usernames :
        /\ nops = 2
        /\ \A s \in 1..2 :
              /\ Done(s, "TaskChange") /\ req[s].status = "Ok"
              /\ req[s].username = u
        /\ req[1].task_name # req[2].task_name
        /\ hist[u].last = 1
        /\ users[u].current_task_id = {req[1].task_name}
        /\ req[2].resp_user # {}
        /\ \A w \in req[2].resp_user : w.current_task_id = req[2].task_name

(* C15: every users document has pomodoro_spent >= 0 in every state        *)
(* reached by TaskChange and TimerEnd events from a store in which every   *)
(* count is >= 0.                                                          *)
C15_CountNeverNegative ==
    \A u \in DOMAIN users : \A n \in users[u].pomodoro_spent : n >= 0

(* a step of request s at position pc *)
StepAt(s, op, pc) ==
    req[s].op = op /\ req[s].pc = pc /\ req'[s] # req[s]

(* C16: no step removes a document; a tasks document appears only by the   *)
(* Task write of a TaskChange for that task text, and a users document     *)
(* only by the User write of a TaskChange or of a TimerEnd for that        *)
(* username.                                                               *)
C16_NoDeletion ==
    [][/\ DOMAIN tasks \subseteq DOMAIN tasks'
       /\ DOMAIN users \subseteq DOMAIN users'
       /\ \A t \in DOMAIN tasks' \ DOMAIN tasks :
             \E s \in Slots :
                 StepAt(s, "TaskChange", "tc_task_update")
                     /\ req[s].task_name = t
       /\ \A u \in DOMAIN users' \ DOMAIN users :
             \E s \in Slots :
                 /\ req[s].username = u
                 /\ \/ StepAt(s, "TaskChange", "tc_user_update")
                    \/ StepAt(s, "TimerEnd", "te_update")]_vars

(* a task created by a TaskChange has been enriched by update_message      *)
(* while a second request was in flight                                    *)
C16_Witness ==
    \E s \in Slots :
        /\ Done(s, "update_message") /\ req[s].status = "Ok"
        /\ req[s].task_name \in DOMAIN tasks
        /\ seed = "empty"
        /\ DOMAIN users # {}

(* C17: on a store that started empty, every users document with a        *)
(* non-empty current_task_id names the key of a stored tasks document.     *)
C17_NoDanglingCurrentTask ==
    \A u \in DOMAIN users :
        \A cur \in users[u].current_task_id :
            cur # "" => cur \in DOMAIN tasks

(* one TaskChange has lost its Task write to a store failure while another *)
(* has made a user point at its task                                       *)
C17_Witness ==
    /\ seed = "empty"
    /\ \E s \in Slots :
          /\ Done(s, "TaskChange") /\ req[s].fault = "store"
          /\ req[s].calls = <<"tasks.update">>
          /\ req[s].task_name \notin DOMAIN tasks
    /\ \E u \in DOMAIN users :
          \E cur \in users[u].current_task_id : cur \in DOMAIN tasks

(* C18: on a store that started empty, a task returned by                  *)
(* get_user_current_task(u) has username u.                                *)
C18_CurrentTaskIsOwn ==
    \A s \in Slots :
        LET r == req[s] IN
        (Done(s, "get_user_current_task") /\ r.status = "Ok"
         /\ seed = "empty") =>
            \A t \in r.resp_task : t.username = r.username

(* C19: the users document a TimerEnd creates is a complete User with      *)
(* current_task_id "": every users document deserializes, a TimerEnd for   *)
(* a user without a document returns Ok with a user whose count is 0, and  *)
(* no read of get_user_current_task or of a TimerEnd fails to deserialize  *)
(* a document.                                                             *)
C19_TimerEndCreatesCompleteUser ==
    /\ \A u \in DOMAIN users : CanDeserUser(users[u])
    /\ \A s \in Slots :
          LET r == req[s] IN
          /\ (Done(s, "TimerEnd") /\ StoreUp(s)
              /\ r.username \notin DOMAIN r.pre_users) =>
                 /\ r.status = "Ok"
                 /\ r.resp_user = {User(r.username, "", 0)}
                 /\ users[r.username] = SerUser(User(r.username, "", 0))
          /\ r.op \in {"TimerEnd", "get_user_current_task"} =>
                 r.fault # "decode"

(* C20: on a store that started empty, the tasks document at key k has     *)
(* task_name k and the users document at key u has id u.                   *)
C20_KeyIdentity ==
    /\ \A k \in DOMAIN tasks : tasks[k].task_name = {k}
    /\ \A u \in DOMAIN users : users[u].id = {u}

(* update_message, called with a user_id that is not the task's username,  *)
(* has written a task, and a TimerEnd has created a users document         *)
C20_Witness ==
    /\ seed = "empty"
    /\ \E s \in Slots :
          /\ Done(s, "update_message") /\ req[s].status = "Ok"
          /\ tasks[req[s].task_name].username # {req[s].username}
    /\ DOMAIN users # {}

====
